---- MODULE Spec2Model ----
(***************************************************************************)
(* Model of the orderbook monitor's cycle (scraper.py, main): the retry    *)
(* loop over PAIRS, the per-symbol health state machine, the cooldown      *)
(* gated alert, and the load/save of health_state.json.                    *)
(*                                                                         *)
(* One run of main() is one cycle.  Time is the wall clock in minutes.     *)
(* The scraped spread, the outcome of the page load, the outcome of the    *)
(* Telegram call and the presence of TELEGRAM_BOT_TOKEN are inputs.        *)
(***************************************************************************)
EXTENDS Integers, Sequences, FiniteSets, TLC

\* ------------------------------------------------------------------ bounds
TickMinutes == 15      \* granularity of the clock
MaxTime == 30          \* the clock stops advancing here
MaxCount == 5          \* cap of "consecutive" (unbounded in the code)
MaxTokLen == 3         \* longest token enumerated over the alphabet
MaxLines == 3          \* longest page text, in lines
FracDigits == 1        \* decimal places kept for the numbers of a book

\* ------------------------------------------------------- program constants
ALERT_THRESHOLD_CYCLES == 3
ALERT_COOLDOWN_MINUTES == 30
MAX_ATTEMPTS_PER_PAIR == 3

\* Python's None for a timestamp (timestamps are >= 0)
None == -1

\* A key that a record of the loaded map does not have.
Missing == -2

\* A two-pair prefix of the configured list; targets in 1/100 percent.
PAIRS == << [symbol |-> "BTC_USDT", target |-> 20],
            [symbol |-> "ETH_USDT", target |-> 25] >>

Symbols == { PAIRS[i].symbol : i \in 1..Len(PAIRS) }

\* Spreads the page can show, in 1/100 percent (curr_spread).
Spreads == {10, 25, 60}

\* The clock can still advance by one tick.  It always runs at least until a
\* cooldown fits into it.
CanAdvance(t) == t + TickMinutes <= MaxTime \/ t < ALERT_COOLDOWN_MINUTES

Times == { t \in 0..(MaxTime + ALERT_COOLDOWN_MINUTES + TickMinutes) :
             t % TickMinutes = 0 }

VARIABLES
    disk,           \* content of health_state.json: symbol -> record
    state,          \* main's local "state" dict
    pc,             \* "idle" (no run), "loop" (for/while of main)
    idx,            \* position of the for loop in PAIRS
    attempt,        \* main's local "attempt"
    success,        \* main's local "success"
    excel_results,  \* main's local "excel_results": symbol -> status
    final_results,  \* main's local "final_results": list of rows
    token,          \* TELEGRAM_BOT_TOKEN is set for this run
    now,            \* wall clock, minutes
    event_log,      \* HealthEvent records written by the program
    evals,          \* history: times the state logic ran per symbol this run
    lastEmit,       \* history: time of the last alert of the ongoing breach
    last,           \* history: what the most recent step did
    file_ok,        \* health_state.json is absent or holds complete JSON
    call            \* a call of one of the pure functions: input and result

vars == << disk, state, pc, idx, attempt, success, excel_results,
           final_results, token,
           now, event_log, evals, lastEmit, last, file_ok, call >>

\* ------------------------------------------------------------- dict helpers
ZeroState == [consecutive |-> 0, last_alert |-> None, start_time |-> None]

\* state.get(symbol, {"consecutive": 0, "last_alert": None, "start_time": None})
Get(m, s) == IF s \in DOMAIN m THEN m[s] ELSE ZeroState

\* state[symbol] = p_state
Put(m, s, r) == [x \in (DOMAIN m) \cup {s} |-> IF x = s THEN r ELSE m[x]]

EmptyMap == [x \in {} |-> ZeroState]

NoResults == [x \in {} |-> ""]

\* ------------------------------------------------------------- pure pieces
\* diff = ((curr_spread - target) / target) * 100
\* is_poor = (diff > 100 or diff < -40), with target > 0
is_poor(curr_spread, target) ==
    \/ (curr_spread - target) * 100 > 100 * target
    \/ (curr_spread - target) * 100 < (0 - 40) * target

\* Variant: a healthy evaluation keeps last_alert.
StateLogic_KeepsAlert(p, poor, t) ==
    IF poor
    THEN [p EXCEPT !.consecutive = p.consecutive + 1,
                   !.start_time = IF p.start_time = None THEN t
                                  ELSE p.start_time]
    ELSE [p EXCEPT !.consecutive = 0, !.start_time = None]

\* Variant: a healthy evaluation keeps start_time.
StateLogic_KeepsStart(p, poor, t) ==
    IF poor
    THEN [p EXCEPT !.consecutive = p.consecutive + 1,
                   !.start_time = IF p.start_time = None THEN t
                                  ELSE p.start_time]
    ELSE [p EXCEPT !.consecutive = 0, !.last_alert = None]

\* Variant: every poor evaluation stamps the breach start time.
StateLogic_RestartsBreach(p, poor, t) ==
    IF poor
    THEN [p EXCEPT !.consecutive = p.consecutive + 1, !.start_time = t]
    ELSE [p EXCEPT !.consecutive = 0, !.start_time = None,
                   !.last_alert = None]

\* Variant: a healthy evaluation stamps the record.
StateLogic_StampsHealthy(p, poor, t) ==
    IF poor
    THEN [p EXCEPT !.consecutive = p.consecutive + 1,
                   !.start_time = IF p.start_time = None THEN t
                                  ELSE p.start_time]
    ELSE [p EXCEPT !.consecutive = 0, !.start_time = t,
                   !.last_alert = None]

\* The "State Logic" block.
StateLogic(p, poor, t) ==
    IF poor
    THEN [p EXCEPT !.consecutive = p.consecutive + 1,
                   !.start_time = IF p.start_time = None THEN t
                                  ELSE p.start_time]
    ELSE [p EXCEPT !.consecutive = 0, !.start_time = None,
                   !.last_alert = None]

\* Variant: once alerted, never again during the breach.
cooldown_ok_OneShot(p, t) == p.last_alert = None

\* cooldown_ok of the "Alert Logic" block; p_state.get("last_alert") is None
\* for a record without the key.
cooldown_ok(p, t) ==
    \/ p.last_alert \in {None, Missing}
    \/ ~ (t - p.last_alert < ALERT_COOLDOWN_MINUTES)

\* Variant: the threshold is not consulted.
AlertDue_NoThreshold(p, t) == cooldown_ok(p, t)

\* Variant: the cooldown is not consulted.
AlertDue_NoCooldown(p, t) == p.consecutive >= ALERT_THRESHOLD_CYCLES

\* the two nested ifs of the "Alert Logic" block
AlertDue(p, t) ==
    /\ p.consecutive >= ALERT_THRESHOLD_CYCLES
    /\ cooldown_ok(p, t)

\* send_telegram(msg): "skipped" without a token, else the POST is made and
\* either returns ("sent") or raises ("raised").
SinkOutcomes(tok) == IF tok THEN {"sent", "raised"} ELSE {"skipped"}

\* p_state after the alert branch: last_alert is written after the send
AfterAlert(p, due, out, t) ==
    IF due /\ out # "raised" THEN [p EXCEPT !.last_alert = t] ELSE p

NoStep == [op |-> "none", poor |-> FALSE, emitted |-> FALSE, sink |-> "none",
           repeat |-> FALSE, failed |-> {}, results |-> NoResults,
           book |-> "both"]

\* The sides of the parsed book: both filled, or one of them empty.
Books == {"both", "no_asks", "no_bids"}

\* The key whose lookup raises KeyError in the "State Logic" block:
\* p_state["consecutive"] first, p_state["start_time"] after the increment
\* of a poor evaluation; the else-branch only assigns.
KeyErrorAt(p, poor) ==
    IF p.consecutive = Missing THEN "consecutive"
    ELSE IF poor /\ p.start_time = Missing THEN "start_time"
    ELSE "none"

\* Variant: the row is appended before the alert is sent.
Appended_BeforeSend(fr, s, poor, raised) ==
    Append(fr, [symbol |-> s,
                status |-> IF poor THEN "Warning" ELSE "Healthy"])

\* final_results.append({... 'symbol': symbol, 'status': 'Warning' if
\* is_poor else 'Healthy' ...}): reached when nothing before it raised.
Appended(fr, s, poor, raised) ==
    IF raised THEN fr
    ELSE Append(fr, [symbol |-> s,
                     status |-> IF poor THEN "Warning" ELSE "Healthy"])

\* no pure function is being looked at
NoCall == [fn |-> "none", arg |-> << >>, res |-> << >>, done |-> FALSE]

\* -------------------------------------------------------------------- Init
Init ==
    /\ disk = EmptyMap
    /\ state = EmptyMap
    /\ pc = "idle"
    /\ idx = 1
    /\ attempt = 0
    /\ success = FALSE
    /\ excel_results = NoResults
    /\ final_results = << >>
    /\ token = TRUE
    /\ now = 0
    /\ event_log = << >>
    /\ evals = [s \in Symbols |-> 0]
    /\ lastEmit = [s \in Symbols |-> None]
    /\ last = NoStep
    /\ file_ok = TRUE
    /\ call = NoCall

\* ----------------------------------------------------------------- actions
\* main() up to the for loop: state = load_state()
Start ==
    /\ pc = "idle"
    /\ file_ok
    /\ \E tok \in BOOLEAN : token' = tok
    /\ state' = disk
    /\ pc' = "loop"
    /\ idx' = 1
    /\ attempt' = 0
    /\ success' = FALSE
    /\ excel_results' = NoResults
    /\ final_results' = << >>
    /\ evals' = [s \in Symbols |-> 0]
    /\ last' = [NoStep EXCEPT !.op = "start"]
    /\ UNCHANGED << file_ok, call, disk, now, event_log, lastEmit >>

\* Variant: one attempt more than the maximum.
InWhile_OffByOne ==
    /\ pc = "loop"
    /\ idx <= Len(PAIRS)
    /\ attempt <= MAX_ATTEMPTS_PER_PAIR
    /\ ~ success

\* while attempt < MAX_ATTEMPTS_PER_PAIR and not success
InWhile ==
    /\ pc = "loop"
    /\ idx <= Len(PAIRS)
    /\ attempt < MAX_ATTEMPTS_PER_PAIR
    /\ ~ success

\* except-branch of the while body
Skipped(res, s, att) ==
    IF att = MAX_ATTEMPTS_PER_PAIR THEN Put(res, s, "SKIPPED") ELSE res

\* Variant: a failed attempt counts as a healthy observation.
AcquireFail_Resets ==
    /\ InWhile
    /\ attempt' = attempt + 1
    /\ excel_results' = Skipped(excel_results, PAIRS[idx].symbol, attempt + 1)
    /\ state' = Put(state, PAIRS[idx].symbol, ZeroState)
    /\ last' = [NoStep EXCEPT !.op = "acqfail"]
    /\ UNCHANGED << file_ok, call, final_results,
                    disk, pc, idx, success, token, now, event_log,
                    evals, lastEmit >>

\* One attempt that raises before the state logic (page load, wait,
\* "No spread data"): the except-branch leaves "state" alone.
AcquireFail ==
    /\ InWhile
    /\ attempt' = attempt + 1
    /\ excel_results' = Skipped(excel_results, PAIRS[idx].symbol, attempt + 1)
    /\ last' = [NoStep EXCEPT !.op = "acqfail"]
    /\ UNCHANGED << file_ok, call, final_results,
                    disk, state, pc, idx, success, token, now, event_log,
                    evals, lastEmit >>

\* One attempt that reaches the state logic, for a spread out of "spreads"
\* and a book out of "books".  With capped, the step is not taken beyond
\* MaxCount; otherwise the stored count saturates at MaxCount.  A KeyError
\* and a raising send_telegram both end in the except-branch.
EvalOn(spreads, capped, books) ==
    /\ InWhile
    /\ \E curr_spread \in spreads, book \in books :
       LET s      == PAIRS[idx].symbol
           poor   == is_poor(curr_spread, PAIRS[idx].target)
           p0     == Get(state, s)
           ke     == KeyErrorAt(p0, poor)
           pl     == IF ke = "consecutive" THEN p0
                     ELSE IF ke = "start_time"
                     THEN [p0 EXCEPT !.consecutive = @ + 1]
                     ELSE StateLogic(p0, poor, now)
           p1     == IF capped \/ pl.consecutive <= MaxCount THEN pl
                     ELSE [pl EXCEPT !.consecutive = MaxCount]
           due    == ke = "none" /\ AlertDue(p1, now)
       IN
       /\ p1.consecutive <= MaxCount
       /\ attempt' = attempt + 1
       /\ evals' = [evals EXCEPT ![s] = @ + 1]
       /\ \E out \in (IF due THEN SinkOutcomes(token) ELSE {"none"}),
             delay \in (IF due THEN {0, TickMinutes} ELSE {0}) :
          LET t2 == IF due /\ delay > 0 /\ CanAdvance(now)
                    THEN now + delay ELSE now
              p2 == AfterAlert(p1, due, out, t2)
              raised == ke # "none" \/ out = "raised"
          IN
          /\ state' = Put(state, s, p2)
          /\ now' = t2
          /\ success' = ~ raised
          /\ excel_results' =
               IF raised THEN Skipped(excel_results, s, attempt + 1)
               ELSE Put(excel_results, s,
                        IF poor THEN "WARNING" ELSE "CHECKED")
          /\ final_results' = Appended(final_results, s, poor, raised)
          /\ lastEmit' = [lastEmit EXCEPT ![s] =
                            IF due THEN t2
                            ELSE IF poor \/ ke # "none" THEN @ ELSE None]
          /\ last' = [NoStep EXCEPT
                        !.op = IF ke = "none" THEN "eval" ELSE "keyerror",
                        !.poor = poor, !.emitted = due, !.sink = out,
                        !.repeat = due /\ p1.last_alert \notin {None, Missing},
                        !.book = book]
    /\ UNCHANGED << file_ok, call, disk, pc, idx, token, event_log >>

\* The sides of the book do not enter the state logic: they are not told
\* apart here.
Eval(spreads, capped) == EvalOn(spreads, capped, {"both"})

Evaluate == Eval(Spreads, TRUE)

\* the while loop ends, the for loop takes the next pair
NextPair ==
    /\ pc = "loop"
    /\ idx <= Len(PAIRS)
    /\ ~ (attempt < MAX_ATTEMPTS_PER_PAIR /\ ~ success)
    /\ idx' = idx + 1
    /\ attempt' = 0
    /\ success' = FALSE
    /\ last' = [NoStep EXCEPT !.op = "next"]
    /\ UNCHANGED << file_ok, call, final_results,
                    disk, state, pc, excel_results, token, now, event_log,
                    evals, lastEmit >>

\* the process exits: its locals are gone
Exit ==
    /\ pc' = "idle"
    /\ state' = EmptyMap
    /\ idx' = 1
    /\ attempt' = 0
    /\ success' = FALSE
    /\ excel_results' = NoResults
    /\ final_results' = << >>
    /\ token' = TRUE
    /\ evals' = [s \in Symbols |-> 0]

\* symbols that ended the loop as SKIPPED without ever reaching the state logic
AcquisitionFailed ==
    { s \in DOMAIN excel_results :
        excel_results[s] = "SKIPPED" /\ evals[s] = 0 }

\* after the loop: latest.csv, update_daily_log, save_state(state)
Finish ==
    /\ pc = "loop"
    /\ idx > Len(PAIRS)
    /\ disk' = state
    /\ last' = [NoStep EXCEPT !.op = "save", !.results = excel_results,
                              !.failed = AcquisitionFailed]
    /\ Exit
    /\ UNCHANGED << file_ok, call, now, event_log, lastEmit >>

\* Variant: the run that ends early writes the symbols it got to.
Abort_SavesVisited ==
    /\ pc = "loop"
    /\ last' = [NoStep EXCEPT !.op = "abort", !.results = excel_results]
    /\ lastEmit' = [s \in Symbols |->
                      IF evals[s] > 0 THEN None ELSE lastEmit[s]]
    /\ disk' = [s \in DOMAIN excel_results |-> Get(state, s)]
    /\ Exit
    /\ UNCHANGED << file_ok, call, now, event_log >>

\* The run ends without reaching save_state: an exception that is not an
\* Exception inside the loop, or one raised by to_csv / update_daily_log;
\* "finally: driver.quit()" and the process exits.  The alerts of a run
\* whose state was not saved are no longer part of the history.
Abort ==
    /\ pc = "loop"
    /\ last' = [NoStep EXCEPT !.op = "abort", !.results = excel_results]
    /\ lastEmit' = [s \in Symbols |->
                      IF evals[s] > 0 THEN None ELSE lastEmit[s]]
    /\ Exit
    /\ UNCHANGED << file_ok, call, disk, now, event_log >>

\* save_state(state) does not complete: open(STATE_FILE, 'w') has emptied
\* the file and the process dies or json.dump raises (disk full) before the
\* whole map is written.  No complete map can be read from the file.
SaveCrash ==
    /\ pc = "loop"
    /\ idx > Len(PAIRS)
    /\ file_ok' = FALSE
    /\ disk' = EmptyMap
    /\ last' = [NoStep EXCEPT !.op = "savecrash", !.results = excel_results]
    /\ lastEmit' = [s \in Symbols |->
                      IF evals[s] > 0 THEN None ELSE lastEmit[s]]
    /\ Exit
    /\ UNCHANGED << call, now, event_log >>

\* main(): load_state() raises on a file that is not complete JSON; the
\* process ends before the loop and before any write.
LoadFail ==
    /\ pc = "idle"
    /\ ~ file_ok
    /\ last' = [NoStep EXCEPT !.op = "loadfail"]
    /\ UNCHANGED << file_ok, call, final_results,
                    disk, state, pc, idx, attempt, success,
                    excel_results, token, now, event_log, evals, lastEmit >>

\* the wall clock advances
Tick ==
    /\ CanAdvance(now)
    /\ now' = now + TickMinutes
    /\ UNCHANGED << file_ok, call, final_results,
                    disk, state, pc, idx, attempt, success, excel_results,
                    token, event_log, evals, lastEmit, last >>

Next ==
    \/ Start
    \/ AcquireFail
    \/ Evaluate
    \/ NextPair
    \/ Finish
    \/ Abort
    \/ Tick

Spec == Init /\ [][Next]_vars

\* ------------------------------------------- the sides of the parsed book
\* A spread the page shows beside a book with an empty side (a wide one).
SnapSpreads == {60}

EvaluateSnap == EvalOn(SnapSpreads, TRUE, Books)

\* Runs that go through the whole list to the save, which may not complete.
SnapNext ==
    \/ Start
    \/ AcquireFail
    \/ EvaluateSnap
    \/ NextPair
    \/ Finish
    \/ SaveCrash
    \/ LoadFail

SnapSpec == Init /\ [][SnapNext]_vars

\* ------------------------------- a state file with records that lack keys
LegacyRecords ==
    { [consecutive |-> 2, last_alert |-> None, start_time |-> Missing],
      [consecutive |-> Missing, last_alert |-> None, start_time |-> 0],
      [consecutive |-> 2, last_alert |-> Missing, start_time |-> 0],
      [consecutive |-> Missing, last_alert |-> Missing,
       start_time |-> Missing] }

LegacyDisks == { [s \in {PAIRS[1].symbol} |-> r] : r \in LegacyRecords }

InitLegacy ==
    /\ disk \in LegacyDisks
    /\ state = EmptyMap
    /\ pc = "idle"
    /\ idx = 1
    /\ attempt = 0
    /\ success = FALSE
    /\ excel_results = NoResults
    /\ final_results = << >>
    /\ token = TRUE
    /\ now = 0
    /\ event_log = << >>
    /\ evals = [s \in Symbols |-> 0]
    /\ lastEmit = [s \in Symbols |-> None]
    /\ last = NoStep
    /\ file_ok = TRUE
    /\ call = NoCall

\* Runs that go through the whole list and save.
RunNext ==
    \/ Start
    \/ AcquireFail
    \/ Evaluate
    \/ NextPair
    \/ Finish

LegacySpec == InitLegacy /\ [][RunNext]_vars

RetrySpec == Init /\ [][RunNext]_vars /\ WF_vars(RunNext)

\* ------------------------------------------------- a breach that persists
\* The symbol whose breach persists, and the spreads the page shows then.
BreachSymbol == PAIRS[1].symbol

LiveSpreads ==
    IF PAIRS[idx].symbol = BreachSymbol
    THEN { x \in Spreads : is_poor(x, PAIRS[idx].target) }
    ELSE Spreads

EvaluateLive == Eval(LiveSpreads, FALSE)

\* A timestamp seen one tick later by a clock that stays at its top value.
Shift(t) ==
    IF t = None THEN None
    ELSE IF t - TickMinutes < 0 THEN 0 ELSE t - TickMinutes

ShiftMap(m) ==
    [s \in DOMAIN m |-> [m[s] EXCEPT !.last_alert = Shift(@),
                                     !.start_time = Shift(@)]]

\* The wall clock advances without end: at its top value the stored
\* timestamps move back instead (differences of a cooldown or more stay so).
TickLive ==
    /\ IF CanAdvance(now)
       THEN /\ now' = now + TickMinutes
            /\ UNCHANGED << disk, state, lastEmit >>
       ELSE /\ now' = now
            /\ disk' = ShiftMap(disk)
            /\ state' = ShiftMap(state)
            /\ lastEmit' = [s \in Symbols |-> Shift(lastEmit[s])]
    /\ UNCHANGED << file_ok, call, final_results,
                    pc, idx, attempt, success, excel_results, token,
                    event_log, evals, last >>

RunStep ==
    \/ Start
    \/ EvaluateLive
    \/ NextPair
    \/ Finish

LiveNext ==
    \/ RunStep
    \/ TickLive

\* Runs keep being started and carried through (the scheduler), time passes.
LiveSpec ==
    /\ Init
    /\ [][LiveNext]_vars
    /\ WF_vars(RunStep)
    /\ WF_vars(TickLive)

\* ------------------------------------------------- text of the order book
\* A token is a sequence of characters; a line is a sequence of tokens, as
\* line.split() yields them.
Digits == {"0", "1", "2", "3", "4", "5", "6", "7", "8", "9"}

DigitValue ==
    [c \in Digits |->
       CASE c = "0" -> 0 [] c = "1" -> 1 [] c = "2" -> 2 [] c = "3" -> 3
         [] c = "4" -> 4 [] c = "5" -> 5 [] c = "6" -> 6 [] c = "7" -> 7
         [] c = "8" -> 8 [] c = "9" -> 9]

\* A float as mantissa and decimal exponent, m * 10^e, with m not a
\* multiple of 10 (0 is m = 0, e = 0); binary rounding is left out.
\* NoValue is Python's None as a parse result.
NoValue == [ok |-> FALSE, m |-> 0, e |-> 0]

RECURSIVE Num(_, _)
Num(m, e) ==
    IF m = 0 THEN [ok |-> TRUE, m |-> 0, e |-> 0]
    ELSE IF m % 10 = 0 THEN Num(m \div 10, e + 1)
    ELSE [ok |-> TRUE, m |-> m, e |-> e]

\* x * 10^k
Scale(x, k) == IF x.ok THEN Num(x.m, x.e + k) ELSE NoValue

\* sub in t
Contains(t, sub) ==
    \E i \in 1..(Len(t) - Len(sub) + 1) : SubSeq(t, i, i + Len(sub) - 1) = sub

\* t.replace(sub, '')
RECURSIVE Replace(_, _)
Replace(t, sub) ==
    IF Len(t) < Len(sub) THEN t
    ELSE IF SubSeq(t, 1, Len(sub)) = sub
    THEN Replace(SubSeq(t, Len(sub) + 1, Len(t)), sub)
    ELSE << Head(t) >> \o Replace(Tail(t), sub)

\* t.strip()
RECURSIVE Strip(_)
Strip(t) ==
    IF t = << >> THEN t
    ELSE IF Head(t) = " " THEN Strip(Tail(t))
    ELSE IF t[Len(t)] = " " THEN Strip(SubSeq(t, 1, Len(t) - 1))
    ELSE t

\* int(ds) for a sequence of digits
RECURSIVE DigitsToInt(_)
DigitsToInt(ds) ==
    IF ds = << >> THEN 0
    ELSE DigitsToInt(SubSeq(ds, 1, Len(ds) - 1)) * 10 + DigitValue[ds[Len(ds)]]

\* the longest run of digits of t that starts at position i
RECURSIVE DigitRun(_, _)
DigitRun(t, i) ==
    IF i <= Len(t) /\ t[i] \in Digits
    THEN << t[i] >> \o DigitRun(t, i + 1)
    ELSE << >>

\* "0" * n
RECURSIVE Zeros(_)
Zeros(n) == IF n = 0 THEN << >> ELSE << "0" >> \o Zeros(n - 1)

\* the two groups of the pattern at position i, g1 being the digits after
\* the brace
BraceGroups(t, i, g1) ==
    [ok |-> /\ i + 3 <= Len(t)
            /\ SubSeq(t, i, i + 3) = << "0", ".", "0", "{" >>
            /\ g1 # << >>
            /\ i + 4 + Len(g1) <= Len(t)
            /\ t[i + 4 + Len(g1)] = "}"
            /\ DigitRun(t, i + 5 + Len(g1)) # << >>,
     g1 |-> g1,
     g2 |-> DigitRun(t, i + 5 + Len(g1))]

\* re.match(r"0\.0\{(\d+)\}(\d+)", t[i:])
BraceMatchAt(t, i) == BraceGroups(t, i, DigitRun(t, i + 4))

\* the leftmost of the positions in hits
Leftmost(hits) == CHOOSE i \in hits : \A k \in hits : i <= k

\* re.search(r"0\.0\{(\d+)\}(\d+)", t): the leftmost match
BraceSearch(t) ==
    IF \E i \in 1..Len(t) : BraceMatchAt(t, i).ok
    THEN BraceMatchAt(t, Leftmost({ i \in 1..Len(t) : BraceMatchAt(t, i).ok }))
    ELSE [ok |-> FALSE, g1 |-> << >>, g2 |-> << >>]

\* the digits ip before and fp after the point of a numeral whose text
\* after ip is rest
Decimal(sgn, ip, fp, rest) ==
    IF /\ ip \o fp # << >>
       /\ \/ rest = << >>
          \/ Head(rest) = "." /\ Len(rest) = 1 + Len(fp)
    THEN Num(sgn * DigitsToInt(ip \o fp), 0 - Len(fp))
    ELSE NoValue

\* the digits of a numeral after its integer part
Fraction(rest) ==
    IF rest # << >> /\ Head(rest) = "." THEN DigitRun(rest, 2) ELSE << >>

Pointed(sgn, ip, rest) == Decimal(sgn, ip, Fraction(rest), rest)

Unsigned(sgn, body) ==
    Pointed(sgn, DigitRun(body, 1),
            SubSeq(body, Len(DigitRun(body, 1)) + 1, Len(body)))

Signed(u) ==
    Unsigned(IF u # << >> /\ Head(u) = "-" THEN -1 ELSE 1,
             IF u # << >> /\ Head(u) \in {"-", "+"} THEN Tail(u) ELSE u)

\* float(t) for text over digits, ".", "-", "+" and blanks at the ends;
\* every other text is a ValueError.
ParseFloat(t) == Signed(Strip(t))

\* val_str after the match: "0." + "0" * int(group 1) + group 2
Expansion(v, mt) ==
    IF mt.ok THEN << "0", "." >> \o Zeros(DigitsToInt(mt.g1)) \o mt.g2 ELSE v

\* the block under: if '{' in val_str
Expanded(v) ==
    IF Contains(v, << "{" >>) THEN Expansion(v, BraceSearch(v)) ELSE v

\* the three returns of the try block
Suffixed(v) ==
    IF v # << >> /\ v[Len(v)] \in {"K", "k"}
    THEN Scale(ParseFloat(SubSeq(v, 1, Len(v) - 1)), 3)
    ELSE IF v # << >> /\ v[Len(v)] \in {"M", "m"}
    THEN Scale(ParseFloat(SubSeq(v, 1, Len(v) - 1)), 6)
    ELSE ParseFloat(v)

\* Variant: the thousands separators are left in.
parse_number_KeepsCommas(value) ==
    IF value = << >> \/ Contains(value, << "-", "-" >>) THEN NoValue
    ELSE Suffixed(Expanded(Strip(value)))

\* parse_number(value); the bare except turns every failure into None
parse_number(value) ==
    IF value = << >> \/ Contains(value, << "-", "-" >>) THEN NoValue
    ELSE Suffixed(Expanded(Strip(Replace(value, << "," >>))))

\* "Spread"
SpreadWord == << "S", "p", "r", "e", "a", "d" >>

\* "Spread" in line
HasSpread(line) == \E k \in 1..Len(line) : Contains(line[k], SpreadWord)

\* parts[1].replace('(', '').replace('%)', '').replace('+', '')
PctText(t) == Replace(Replace(Replace(t, << "(" >>), << "%", ")" >>), << "+" >>)

\* spread_pct = float(...), kept as it was when float raises
WithSpread(acc, v) == IF v.ok THEN [acc EXCEPT !.spread_pct = v] ELSE acc

\* the row of a three-token line: p, a, t
RowOf(line) ==
    [price  |-> parse_number(line[1]),
     amount |-> parse_number(line[2]),
     total  |-> parse_number(line[3])]

\* if a is not None: the row goes to the current side
WithRow(acc, row) ==
    IF ~ row.amount.ok THEN acc
    ELSE IF acc.side = "asks" THEN [acc EXCEPT !.asks = Append(@, row)]
    ELSE [acc EXCEPT !.bids = Append(@, row)]

\* the body of the for loop of parse_orderbook
LineStep(acc, line) ==
    IF HasSpread(line) THEN [acc EXCEPT !.side = "bids"]
    ELSE IF Len(line) = 2 /\ Contains(line[2], << "(" >>)
    THEN WithSpread(acc, ParseFloat(PctText(line[2])))
    ELSE IF Len(line) = 3 THEN WithRow(acc, RowOf(line))
    ELSE acc

RECURSIVE ParseLines(_, _)
ParseLines(acc, lines) ==
    IF lines = << >> THEN acc
    ELSE ParseLines(LineStep(acc, Head(lines)), Tail(lines))

\* the three values parse_orderbook returns
Returned(acc) ==
    [asks |-> acc.asks, bids |-> acc.bids, spread_pct |-> acc.spread_pct]

\* parse_orderbook(text), text given as its lines
parse_orderbook(text) ==
    Returned(ParseLines([asks |-> << >>, bids |-> << >>, side |-> "asks",
                         spread_pct |-> NoValue], text))

\* 10^n
RECURSIVE Pow10(_)
Pow10(n) == IF n = 0 THEN 1 ELSE 10 * Pow10(n - 1)

\* A number of the book in units of 10^-FracDigits.
Fixed(x) == x.m * Pow10(x.e + FracDigits)

\* price * amount of the rows of a frame whose index is in sel, summed
RECURSIVE Notional(_, _)
Notional(df, sel) ==
    IF sel = {} THEN 0
    ELSE LET i == CHOOSE k \in sel : TRUE
         IN  Fixed(df[i].price) * Fixed(df[i].amount)
             + Notional(df, sel \ {i})

\* the prices of a frame that are numbers (min and max skip NaN)
Prices(df) == { Fixed(df[i].price) : i \in { k \in 1..Len(df) : df[k].price.ok } }

\* asks_df['price'].min()
MinOf(ps) == CHOOSE p \in ps : \A q \in ps : p <= q

\* bids_df['price'].max()
MaxOf(ps) == CHOOSE p \in ps : \A q \in ps : p >= q

\* Variant: the asks beyond the band are summed.
DepthAround_Outside(asks_df, bids_df, r, mid2) ==
    Notional(bids_df, { i \in 1..Len(bids_df) :
                          /\ bids_df[i].price.ok
                          /\ Fixed(bids_df[i].price) * 200 >= mid2 * (100 - r) })
    + Notional(asks_df, { i \in 1..Len(asks_df) :
                            /\ asks_df[i].price.ok
                            /\ Fixed(asks_df[i].price) * 200 >= mid2 * (100 + r) })

\* bid_depth + ask_depth in exact arithmetic, in units of
\* 10^-(2 * FracDigits); mid2 is twice the mid price: price >= mid * (1 -
\* r / 100) and price <= mid * (1 + r / 100) are compared after multiplying
\* by 200.  A price that is NaN fails every comparison.
DepthAround(asks_df, bids_df, r, mid2) ==
    Notional(bids_df, { i \in 1..Len(bids_df) :
                          /\ bids_df[i].price.ok
                          /\ Fixed(bids_df[i].price) * 200 >= mid2 * (100 - r) })
    + Notional(asks_df, { i \in 1..Len(asks_df) :
                            /\ asks_df[i].price.ok
                            /\ Fixed(asks_df[i].price) * 200 <= mid2 * (100 + r) })

\* calculate_liquidity_depth: the set of its outcomes.  A price that is None
\* is NaN in a frame that has numbers; a frame whose prices are all None
\* keeps them as objects, and the comparison either raises TypeError or
\* selects nothing.
calculate_liquidity_depth(asks_df, bids_df, spread_pct_range) ==
    IF asks_df = << >> \/ bids_df = << >> THEN {[ok |-> TRUE, v |-> 0]}
    ELSE IF Prices(asks_df) = {} \/ Prices(bids_df) = {}
    THEN {[ok |-> FALSE, v |-> 0], [ok |-> TRUE, v |-> 0]}
    ELSE {[ok |-> TRUE,
           v  |-> DepthAround(asks_df, bids_df, spread_pct_range,
                              MinOf(Prices(asks_df)) + MaxOf(Prices(bids_df)))]}

\* ------------------------------------------------ inputs of the functions
\* The tokens of the specification's examples and some with braces.
T_1_234_5 == << "1", ",", "2", "3", "4", ".", "5" >>

T_2K == << "2", "K" >>

T_3M == << "3", "M" >>

T_brace == << "0", ".", "0", "{", "6", "}", "1", "2", "3" >>

T_dashes == << "-", "-" >>

T_brace_junk == << "x", "0", ".", "0", "{", "1", "}", "5", "x" >>

T_brace_K == << "0", ".", "0", "{", "1", "}", "5", "K" >>

T_brace_empty == << "0", ".", "0", "{", "}", "5" >>

ExampleTokens ==
    { T_1_234_5, T_2K, T_3M, T_brace, T_dashes, T_brace_junk, T_brace_K,
      T_brace_empty }

Alphabet == {"0", "1", "5", ",", ".", "-", "{", "}", "K", "M", "x"}

Tokens ==
    ExampleTokens \cup UNION { [1..n -> Alphabet] : n \in 0..MaxTokLen }

\* Lines of the page text, split into tokens.
SpreadLine == << SpreadWord >>

PctLine == << << "0", ".", "0", "5" >>, << "(", "0", ".", "2", "5", "%", ")" >> >>

JunkLine == << << "x" >> >>

Row_101 == << << "1", "0", "1" >>, << "1" >>, << "1", "0", "1" >> >>

Row_104 == << << "1", "0", "4" >>, << "2" >>, << "2", "0", "8" >> >>

Row_104_neg == << << "1", "0", "4" >>, << "-", "5" >>, << "0" >> >>

Row_99_5 == << << "9", "9", ".", "5" >>, << "3" >>, << "2", "9", "8", ".", "5" >> >>

Row_no_price == << << "-", "-" >>, << "5" >>, << "1", "0" >> >>

Row_no_amount == << << "1", "0", "0" >>, << "-", "-" >>, << "-", "-" >> >>

RowLines ==
    { Row_101, Row_104, Row_104_neg, Row_99_5, Row_no_price,
      Row_no_amount }

LineSet == RowLines \cup {SpreadLine, PctLine, JunkLine}

Texts == UNION { [1..n -> LineSet] : n \in 0..MaxLines }

\* spread_pct_range, in percent
Bands == {1, 5}

\* two bands, the narrow one first
BandPairs == { bb \in Bands \X Bands : bb[1] < bb[2] }

\* ------------------------------------------- the functions on their inputs
\* A call that has its arguments and has not returned.
Pending(fn, arg) == [fn |-> fn, arg |-> arg, res |-> << >>, done |-> FALSE]

Calls ==
    { Pending("parse_number", tok) : tok \in Tokens }
    \cup { Pending("parse_orderbook", text) : text \in Texts }
    \cup { Pending("calculate_liquidity_depth",
                   [text |-> text, b1 |-> bb[1], b2 |-> bb[2]]) :
             text \in Texts, bb \in BandPairs }

InitCall ==
    /\ call \in Calls
    /\ disk = EmptyMap
    /\ state = EmptyMap
    /\ pc = "idle"
    /\ idx = 1
    /\ attempt = 0
    /\ success = FALSE
    /\ excel_results = NoResults
    /\ final_results = << >>
    /\ token = TRUE
    /\ now = 0
    /\ event_log = << >>
    /\ evals = [s \in Symbols |-> 0]
    /\ lastEmit = [s \in Symbols |-> None]
    /\ last = NoStep
    /\ file_ok = TRUE

CallParseNumber ==
    /\ call.fn = "parse_number"
    /\ ~ call.done
    /\ call' = [call EXCEPT !.res = parse_number(call.arg), !.done = TRUE]
    /\ UNCHANGED << disk, state, pc, idx, attempt, success, excel_results, final_results,
                    token, now, event_log, evals, lastEmit, last, file_ok >>

CallParseOrderbook ==
    /\ call.fn = "parse_orderbook"
    /\ ~ call.done
    /\ call' = [call EXCEPT !.res = parse_orderbook(call.arg), !.done = TRUE]
    /\ UNCHANGED << disk, state, pc, idx, attempt, success, excel_results, final_results,
                    token, now, event_log, evals, lastEmit, last, file_ok >>

\* The depth of one parsed text at two bands, as lines 336-337 take it.
CallDepth ==
    /\ call.fn = "calculate_liquidity_depth"
    /\ ~ call.done
    /\ LET bk == parse_orderbook(call.arg.text) IN
       \E d1 \in calculate_liquidity_depth(bk.asks, bk.bids, call.arg.b1),
          d2 \in calculate_liquidity_depth(bk.asks, bk.bids, call.arg.b2) :
          /\ d1.ok = d2.ok
          /\ call' = [call EXCEPT !.res = [book |-> bk, d1 |-> d1, d2 |-> d2],
                                  !.done = TRUE]
    /\ UNCHANGED << disk, state, pc, idx, attempt, success, excel_results, final_results,
                    token, now, event_log, evals, lastEmit, last, file_ok >>

ParseNext ==
    \/ CallParseNumber
    \/ CallParseOrderbook
    \/ CallDepth

ParseSpec == InitCall /\ [][ParseNext]_vars

\* ------------------------------------------------------------------ claims
\* The step is an attempt for symbol s that reached the state logic.
EvalStep(s) ==
    /\ pc = "loop"
    /\ idx <= Len(PAIRS)
    /\ PAIRS[idx].symbol = s
    /\ attempt' = attempt + 1
    /\ last'.op = "eval"

\* The step is the save_state at the end of a run.
SaveStep ==
    /\ pc = "loop"
    /\ pc' = "idle"
    /\ last'.op = "save"

\* The symbol the for loop is at.
Current == PAIRS[idx].symbol

\* C1: counting from the zero state, the first and second poor evaluation
\* emit no alert, the third emits the first alert of the breach, a fourth
\* within the cooldown of that alert emits none, and a fifth after the
\* cooldown has elapsed emits one.
C1_ThreeStrikesThenCooldown ==
    [][\A s \in Symbols :
         (EvalStep(s) /\ last'.poor) =>
            LET c    == state'[s].consecutive
                e    == last'.emitted
                prev == lastEmit[s]
            IN
            /\ (c < ALERT_THRESHOLD_CYCLES => ~ e)
            /\ (c = ALERT_THRESHOLD_CYCLES => e /\ prev = None)
            /\ (c = ALERT_THRESHOLD_CYCLES + 1 /\ prev # None
                  /\ now - prev < ALERT_COOLDOWN_MINUTES => ~ e)
            /\ (c = ALERT_THRESHOLD_CYCLES + 2 /\ prev # None
                  /\ now - prev >= ALERT_COOLDOWN_MINUTES => e)
      ]_vars

\* C2: an evaluation emits an alert exactly when the count after the update
\* has reached the threshold and last_alert is null or at least a cooldown
\* old; never below the threshold, never after a healthy evaluation.
C2_AlertIffDue ==
    [][\A s \in Symbols :
         EvalStep(s) =>
            LET c  == state'[s].consecutive
                la == IF last'.poor THEN Get(state, s).last_alert ELSE None
            IN
            /\ last'.emitted <=>
                 /\ c >= ALERT_THRESHOLD_CYCLES
                 /\ (la = None \/ now - la >= ALERT_COOLDOWN_MINUTES)
            /\ (c < ALERT_THRESHOLD_CYCLES \/ ~ last'.poor) => ~ last'.emitted
      ]_vars

C2_Witness ==
    /\ pc = "loop"
    /\ idx <= Len(PAIRS)
    /\ last.op = "eval"
    /\ last.emitted
    /\ last.repeat
    /\ last.sink = "sent"
    /\ Get(state, Current).consecutive > ALERT_THRESHOLD_CYCLES
    /\ Get(state, Current).last_alert >= ALERT_COOLDOWN_MINUTES

\* C3: two alerts of the same ongoing breach are at least a cooldown apart.
C3_AlertsCooldownApart ==
    [][\A s \in Symbols :
         (EvalStep(s) /\ last'.emitted /\ lastEmit[s] # None) =>
            now - lastEmit[s] >= ALERT_COOLDOWN_MINUTES
      ]_vars

\* C4: while the breach of a symbol persists and runs keep occurring, alerts
\* for the symbol are emitted again and again.
C4_AlertsRepeat ==
    []<><< EvalStep(BreachSymbol) /\ last'.emitted >>_vars

C4_Witness ==
    /\ pc = "loop"
    /\ idx <= Len(PAIRS)
    /\ Current = BreachSymbol
    /\ last.op = "eval"
    /\ last.emitted
    /\ last.repeat
    /\ Get(state, Current).consecutive = MaxCount
    /\ Get(state, Current).last_alert = now
    /\ ~ CanAdvance(now)

\* C5: a healthy evaluation of a breaching symbol leaves the zero state:
\* count 0, no breach start time, no last alert time.
C5_HealthyResets ==
    [][\A s \in Symbols :
         (EvalStep(s) /\ ~ last'.poor /\ Get(state, s).consecutive >= 1) =>
            /\ state'[s].consecutive = 0
            /\ state'[s].start_time = None
            /\ state'[s].last_alert = None
      ]_vars

C5_Witness ==
    /\ pc = "loop"
    /\ idx <= Len(PAIRS)
    /\ last.op = "eval"
    /\ ~ last.poor
    /\ evals[Current] = 1
    /\ Get(disk, Current).consecutive >= ALERT_THRESHOLD_CYCLES
    /\ Get(disk, Current).last_alert # None
    /\ state[Current] = ZeroState

\* C6: an evaluation that takes a symbol from count 0 to a positive count
\* appends one ENTERED_WARNING event, one that takes it back to 0 appends one
\* CLEARED_WARNING event, any other evaluation appends nothing.
C6_TransitionsLogged ==
    [][\A s \in Symbols :
         EvalStep(s) =>
            LET c0 == Get(state, s).consecutive
                c1 == state'[s].consecutive
            IN
            event_log' =
              IF c0 = 0 /\ c1 > 0
              THEN Append(event_log, [symbol |-> s,
                                      event_type |-> "ENTERED_WARNING"])
              ELSE IF c0 > 0 /\ c1 = 0
              THEN Append(event_log, [symbol |-> s,
                                      event_type |-> "CLEARED_WARNING"])
              ELSE event_log
      ]_vars

\* C7: in the loaded, the updated and the saved map, a symbol has a breach
\* start time exactly when its count is positive.
C7_StartTimeIffBreaching ==
    /\ \A s \in DOMAIN disk :
         (disk[s].start_time # None) <=> (disk[s].consecutive > 0)
    /\ \A s \in DOMAIN state :
         (state[s].start_time # None) <=> (state[s].consecutive > 0)

C7_Witness ==
    \E s \in DOMAIN disk, r \in DOMAIN disk :
       /\ disk[s].consecutive > 1
       /\ disk[s].start_time # None
       /\ disk[s].start_time < now
       /\ disk[r] = ZeroState
       /\ last.op = "save"
       /\ last.results = [x \in Symbols |-> IF x = s THEN "WARNING"
                                            ELSE "CHECKED"]

\* C8: last_alert is given a new timestamp only in an evaluation whose alert
\* send_telegram actually posted.
C8_LastAlertOnlyWhenSent ==
    [][\A s \in Symbols :
         (/\ EvalStep(s)
          /\ state'[s].last_alert # None
          /\ state'[s].last_alert # Get(state, s).last_alert) =>
            (last'.emitted /\ last'.sink = "sent")
      ]_vars

\* C9: at the save of a run, a symbol whose every attempt failed to acquire a
\* sample keeps its persisted record, and every symbol that was evaluated
\* has the record its evaluation produced persisted: the zero state after a
\* healthy one, a higher count and a breach start time after a poor one.
C9_FailureIsolation ==
    [][SaveStep =>
         \A s \in Symbols :
            /\ s \in AcquisitionFailed =>
                 /\ (s \in DOMAIN disk') <=> (s \in DOMAIN disk)
                 /\ Get(disk', s) = Get(disk, s)
            /\ (s \in DOMAIN excel_results /\ excel_results[s] = "CHECKED") =>
                 (s \in DOMAIN disk' /\ disk'[s] = ZeroState)
            /\ (s \in DOMAIN excel_results /\ excel_results[s] = "WARNING") =>
                 /\ s \in DOMAIN disk'
                 /\ disk'[s] = state[s]
                 /\ disk'[s].consecutive > Get(disk, s).consecutive
                 /\ disk'[s].start_time # None
      ]_vars

C9_Witness ==
    \E x \in Symbols, y \in Symbols :
       /\ last.op = "save"
       /\ last.failed = {x}
       /\ x \in DOMAIN disk
       /\ disk[x].consecutive = 2
       /\ y \in DOMAIN last.results
       /\ last.results[y] = "WARNING"
       /\ disk[y].consecutive = 1

\* C10: a symbol evaluated as poor in a run is saved with a count exactly one
\* higher than the count the run loaded, whatever the Telegram call did.
C10_OneTransitionPerCycle ==
    [][SaveStep =>
         \A s \in Symbols :
            (evals[s] > 0 /\ state[s].consecutive > 0) =>
               disk'[s].consecutive = Get(disk, s).consecutive + 1
      ]_vars

\* The step ends a run inside the for loop, before save_state.
AbortStep ==
    /\ pc = "loop"
    /\ pc' = "idle"
    /\ last'.op = "abort"

\* The symbols the for loop has not started on.
Unvisited ==
    { PAIRS[i].symbol :
        i \in { j \in 1..Len(PAIRS) : j > idx \/ (j = idx /\ attempt = 0) } }

\* C11: when a run is aborted part-way through the pair list, the persisted
\* record of every symbol the loop had not started on is what it was.
C11_AbortKeepsUnvisited ==
    [][AbortStep =>
         \A s \in Unvisited :
            /\ (s \in DOMAIN disk') <=> (s \in DOMAIN disk)
            /\ Get(disk', s) = Get(disk, s)
            /\ file_ok' = file_ok
      ]_vars

C11_Witness ==
    /\ last.op = "abort"
    /\ PAIRS[1].symbol \in DOMAIN last.results
    /\ last.results[PAIRS[1].symbol] = "CHECKED"
    /\ PAIRS[2].symbol \notin DOMAIN last.results
    /\ PAIRS[2].symbol \in DOMAIN disk
    /\ disk[PAIRS[2].symbol].consecutive >= 2
    /\ disk[PAIRS[1].symbol].consecutive >= 1

\* C12: a save_state that does not complete leaves the complete last saved
\* map in the file, and a run whose load_state fails writes nothing.
C12_AtomicSave ==
    [][/\ (pc = "loop" /\ last'.op = "savecrash") =>
             (file_ok' /\ disk' = disk)
       /\ (pc = "idle" /\ ~ file_ok /\ last'.op = "loadfail") =>
             (disk' = disk /\ file_ok' = file_ok)
      ]_vars

\* The step is an attempt for symbol s that got to the state logic block.
LogicStep(s) ==
    /\ pc = "loop"
    /\ idx <= Len(PAIRS)
    /\ PAIRS[idx].symbol = s
    /\ attempt' = attempt + 1
    /\ last'.op \in {"eval", "keyerror"}

\* The step is an attempt that raised before the state logic block.
AcquireFailStep ==
    /\ pc = "loop"
    /\ attempt' = attempt + 1
    /\ last'.op = "acqfail"

Defaulted(p) ==
    [consecutive |-> IF p.consecutive = Missing THEN 0 ELSE p.consecutive,
     last_alert  |-> IF p.last_alert = Missing THEN None ELSE p.last_alert,
     start_time  |-> IF p.start_time = Missing THEN None ELSE p.start_time]

\* C20: the evaluation of a symbol whose loaded record lacks keys, or that
\* has no record, goes through and yields the count and the breach start
\* time that the record with the defaults filled in yields.
C20_MissingFieldsDefault ==
    [][\A s \in Symbols :
         (LogicStep(s) /\ (Get(state, s) # Defaulted(Get(state, s))
                           \/ s \notin DOMAIN state)) =>
            LET d == Defaulted(Get(state, s)) IN
            /\ last'.op = "eval"
            /\ state'[s].consecutive =
                 IF last'.poor THEN d.consecutive + 1 ELSE 0
            /\ state'[s].start_time =
                 IF ~ last'.poor THEN None
                 ELSE IF d.start_time = None THEN now ELSE d.start_time
      ]_vars

\* The step is an attempt of the retry loop.
AttemptStep ==
    /\ pc = "loop"
    /\ attempt' = attempt + 1

\* The step leaves the retry loop of the current pair.
NextPairStep ==
    /\ pc = "loop"
    /\ idx' = idx + 1

\* C14: a pair gets at most MAX_ATTEMPTS_PER_PAIR attempts and none after a
\* success; a pair that used them all up without success is recorded as
\* SKIPPED and the run goes on with the next pair; a run that is not
\* aborted gets to the end of the list and saves.
C14_BoundedRetries ==
    /\ [](attempt <= MAX_ATTEMPTS_PER_PAIR)
    /\ [][AttemptStep => (~ success /\ attempt < MAX_ATTEMPTS_PER_PAIR)]_vars
    /\ [][(NextPairStep /\ ~ success) =>
             /\ attempt = MAX_ATTEMPTS_PER_PAIR
             /\ Current \in DOMAIN excel_results
             /\ excel_results[Current] = "SKIPPED"
             /\ pc' = "loop"
         ]_vars
    /\ (pc = "loop") ~> (pc = "idle" /\ last.op = "save")

\* A run was saved in which the first pair used up its attempts and a later
\* pair was evaluated.
C14_Witness ==
    /\ last.op = "save"
    /\ last.results[PAIRS[1].symbol] = "SKIPPED"
    /\ last.results[PAIRS[Len(PAIRS)].symbol] \in {"CHECKED", "WARNING"}

\* C18: a poor evaluation of a symbol whose count is above 0 adds exactly 1
\* to the count and keeps the breach start time, which is a time not after
\* the evaluation; the poor evaluation that opens a breach (count 0) is the
\* one that sets the breach start time, to the time of that evaluation.
C18_PoorWhileBreaching ==
    [][\A s \in Symbols :
         (EvalStep(s) /\ last'.poor) =>
            IF Get(state, s).consecutive > 0
            THEN /\ state'[s].consecutive = Get(state, s).consecutive + 1
                 /\ state'[s].start_time = Get(state, s).start_time
                 /\ state'[s].start_time # None
                 /\ state'[s].start_time <= now
            ELSE /\ state'[s].consecutive = 1
                 /\ state'[s].start_time = now
      ]_vars

\* The first evaluation of a run was poor for a symbol loaded as breaching
\* since an earlier time.
C18_Witness ==
    /\ pc = "loop"
    /\ idx <= Len(PAIRS)
    /\ last.op = "eval"
    /\ last.poor
    /\ evals[Current] = 1
    /\ Get(disk, Current).consecutive >= 2
    /\ Get(disk, Current).start_time < now
    /\ state[Current].consecutive = Get(disk, Current).consecutive + 1
    /\ state[Current].start_time = Get(disk, Current).start_time

\* C19: a healthy evaluation of a symbol whose count is 0 leaves the count,
\* the breach start time and the last alert time as they were and emits no
\* alert.
C19_HealthyAtZeroNoOp ==
    [][\A s \in Symbols :
         (EvalStep(s) /\ ~ last'.poor /\ Get(state, s).consecutive = 0) =>
            /\ state'[s] = Get(state, s)
            /\ ~ last'.emitted
            /\ last'.sink = "none"
            /\ lastEmit'[s] = None
      ]_vars

\* The first evaluation of a run was healthy for a symbol loaded with
\* count 0, in a run that follows a saved one.
C19_Witness ==
    /\ pc = "loop"
    /\ idx <= Len(PAIRS)
    /\ last.op = "eval"
    /\ ~ last.poor
    /\ evals[Current] = 1
    /\ Current \in DOMAIN disk
    /\ disk[Current].consecutive = 0
    /\ state[Current] = disk[Current]

\* No row of a parsed book has a negative price or a negative amount.
NonNegative(rows) ==
    \A i \in 1..Len(rows) :
       /\ rows[i].amount.m >= 0
       /\ rows[i].price.ok => rows[i].price.m >= 0

SaneBook(bk) == NonNegative(bk.asks) /\ NonNegative(bk.bids)

\* The call is a depth computation on a book with rows on both sides.
DepthCall ==
    /\ call.fn = "calculate_liquidity_depth"
    /\ call.done
    /\ call.arg.b1 < call.arg.b2
    /\ call.res.book.asks # << >>
    /\ call.res.book.bids # << >>

\* C15: for every parsed text with ask rows and bid rows and bands B1 < B2,
\* the depth at B1 is not above the depth at B2.
C15_DepthMonotone ==
    (DepthCall /\ call.res.d1.ok /\ call.res.d2.ok) =>
       call.res.d1.v <= call.res.d2.v

\* C15 with the rows restricted: for every parsed text with ask rows and
\* bid rows none of which has a negative price or a negative amount, and
\* bands B1 < B2, the depth at B1 is not above the depth at B2.
C15_DepthMonotoneSaneRows ==
    (DepthCall /\ SaneBook(call.res.book)
       /\ call.res.d1.ok /\ call.res.d2.ok) =>
       call.res.d1.v <= call.res.d2.v

\* A book with such rows whose rows all lie outside the narrow band and
\* inside the wide one.
C15_Witness ==
    /\ DepthCall
    /\ SaneBook(call.res.book)
    /\ call.res.d1.ok
    /\ call.res.d2.ok
    /\ call.res.d1.v = 0
    /\ call.res.d1.v < call.res.d2.v

\* The index of the first line with "Spread", or one past the end.
FirstSpread(text) ==
    IF \E i \in 1..Len(text) : HasSpread(text[i])
    THEN CHOOSE i \in 1..Len(text) :
            /\ HasSpread(text[i])
            /\ \A k \in 1..(i - 1) : ~ HasSpread(text[k])
    ELSE Len(text) + 1

\* The rows of the three-token lines i..hi of text whose price is a number.
RECURSIVE PricedRows(_, _, _)
PricedRows(text, i, hi) ==
    IF i > hi THEN << >>
    ELSE IF /\ ~ HasSpread(text[i])
            /\ Len(text[i]) = 3
            /\ parse_number(text[i][1]).ok
    THEN << RowOf(text[i]) >> \o PricedRows(text, i + 1, hi)
    ELSE PricedRows(text, i + 1, hi)

\* C16: the ask rows are the three-token lines before the first "Spread"
\* line whose first token is a number, the bid rows those after it, whatever
\* their amount and total.
C16_RowIffPrice ==
    (call.fn = "parse_orderbook" /\ call.done) =>
       /\ call.res.asks = PricedRows(call.arg, 1, FirstSpread(call.arg) - 1)
       /\ call.res.bids =
            PricedRows(call.arg, FirstSpread(call.arg) + 1, Len(call.arg))

\* The characters of a token.
Chars(t) == { t[i] : i \in 1..Len(t) }

\* C17: parse_number yields a number or None for every token; the examples
\* of the specification get their values; a token with "--", without a
\* digit, or with a brace that is not part of 0.0{n}d is None.
C17_ParseNumberTotal ==
    (call.fn = "parse_number" /\ call.done) =>
       /\ call.res = NoValue \/ call.res = Num(call.res.m, call.res.e)
       /\ call.arg = T_1_234_5 => call.res = Num(12345, -1)
       /\ call.arg = T_2K => call.res = Num(2000, 0)
       /\ call.arg = T_3M => call.res = Num(3000000, 0)
       /\ call.arg = T_brace => call.res = Num(123, -9)
       /\ call.arg = T_dashes => call.res = NoValue
       /\ Contains(call.arg, << "-", "-" >>) => call.res = NoValue
       /\ Chars(call.arg) \cap Digits = {} => call.res = NoValue
       /\ ("{" \in Chars(call.arg) /\ ~ BraceSearch(call.arg).ok) =>
             call.res = NoValue

\* The brace form was expanded.
C17_Witness ==
    /\ call.fn = "parse_number"
    /\ call.done
    /\ call.arg = T_brace
    /\ call.res = [ok |-> TRUE, m |-> 123, e |-> -9]

\* The outcome of symbol s in the run that is being saved.
Outcome(s) == IF s \in DOMAIN excel_results THEN excel_results[s] ELSE "none"

\* C21: the persisted count of a symbol is the number of runs, since its
\* most recent healthy evaluation (or since the start), in which it was
\* evaluated as poor.  Step by step from the empty map: a run that saves
\* leaves the count of a symbol whose sample failed as it was, sets it to 0
\* for a symbol evaluated as healthy, and adds exactly one for a symbol
\* evaluated as poor.
C21_CountTalliesPoorCycles ==
    [][SaveStep =>
         \A s \in Symbols :
            LET before == Get(disk, s).consecutive
                after  == Get(disk', s).consecutive
            IN  /\ Outcome(s) = "WARNING" => after = before + 1
                /\ Outcome(s) = "CHECKED" => after = 0
                /\ Outcome(s) \in {"SKIPPED", "none"} => after = before
      ]_vars

\* The records of a map obey: a last alert time only at or above the
\* threshold.
AlertedOnlyAtThreshold(m) ==
    \A s \in DOMAIN m :
       m[s].last_alert # None => m[s].consecutive >= ALERT_THRESHOLD_CYCLES

\* C22: starting from the empty map, in the file and in the dict of a run, a
\* symbol with a last alert time has a count of at least
\* ALERT_THRESHOLD_CYCLES; a symbol at count 0 or below the threshold has
\* none.
C22_LastAlertImpliesThreshold ==
    /\ AlertedOnlyAtThreshold(disk)
    /\ AlertedOnlyAtThreshold(state)

\* One symbol was saved with its alert time, the other is breaching below
\* the threshold and has none.
C22_Witness ==
    \E x \in Symbols, y \in Symbols :
       /\ pc = "idle"
       /\ last.op = "save"
       /\ x \in DOMAIN disk
       /\ disk[x].last_alert # None
       /\ disk[x].consecutive >= ALERT_THRESHOLD_CYCLES
       /\ y \in DOMAIN disk
       /\ disk[y].consecutive \in 1..(ALERT_THRESHOLD_CYCLES - 1)
       /\ disk[y].last_alert = None

\* This run wrote a last alert time for symbol s: it emitted an alert for it.
AlertedInRun(s) ==
    /\ evals[s] > 0
    /\ Get(state, s).last_alert # None
    /\ Get(state, s).last_alert # Get(disk, s).last_alert

\* The process ends after the for loop: the save completed, or to_csv or
\* update_daily_log raised.
EndsAfterLoop ==
    /\ pc = "loop"
    /\ idx > Len(PAIRS)
    /\ pc' = "idle"

\* C23: when the process ends after the symbol loop, with the run completed
\* or failed, the file records the updated count and the last alert time of
\* every symbol the run emitted an alert for.
C23_AlertPersisted ==
    [][EndsAfterLoop =>
         \A s \in Symbols :
            AlertedInRun(s) =>
               /\ s \in DOMAIN disk'
               /\ disk'[s].consecutive = state[s].consecutive
               /\ disk'[s].last_alert = state[s].last_alert
      ]_vars

\* The rows of final_results for symbol s.
RowsOf(s) == { i \in 1..Len(final_results) : final_results[i].symbol = s }

\* The symbols marked SKIPPED in excel_results.
SkippedSymbols ==
    { s \in DOMAIN excel_results : excel_results[s] = "SKIPPED" }

\* The for loop over PAIRS has ended.
LoopEnded == pc = "loop" /\ idx > Len(PAIRS)

\* C24: at the end of the symbol loop every configured pair either has
\* exactly one row in final_results, with status Warning or Healthy, or is
\* marked SKIPPED in excel_results, never both and never neither; Total
\* Pairs plus Skipped is the number of configured pairs.
C24_OneOutcomePerPair ==
    LoopEnded =>
       /\ \A s \in Symbols :
             \/ /\ Cardinality(RowsOf(s)) = 1
                /\ \A i \in RowsOf(s) :
                      final_results[i].status \in {"Warning", "Healthy"}
                /\ s \notin SkippedSymbols
             \/ /\ RowsOf(s) = {}
                /\ s \in SkippedSymbols
       /\ Len(final_results) + Cardinality(SkippedSymbols) = Len(PAIRS)

\* One pair got its row after an attempt that raised, the other was skipped
\* after an attempt that had reached the state logic.
C24_Witness ==
    /\ LoopEnded
    /\ Len(final_results) = 1
    /\ final_results[1].symbol = PAIRS[1].symbol
    /\ final_results[1].status = "Warning"
    /\ evals[PAIRS[1].symbol] = 2
    /\ SkippedSymbols = {PAIRS[2].symbol}
    /\ evals[PAIRS[2].symbol] > 0

TypeOK ==
    /\ pc \in {"idle", "loop"}
    /\ idx \in 1..(Len(PAIRS) + 1)
    /\ attempt \in 0..MAX_ATTEMPTS_PER_PAIR
    /\ now \in Times
    /\ DOMAIN disk \subseteq Symbols
    /\ DOMAIN state \subseteq Symbols
    /\ \A s \in DOMAIN state : state[s].consecutive \in 0..MaxCount

====
